---------------------------- MODULE Spec2Model ----------------------------
(***************************************************************************)
(* Model of src/consumer.py: an NDN consumer that expresses one Interest   *)
(* with verify_ecdsa_signature as the Data validator.  The validator       *)
(* fetches the signer's certificate with a nested Interest, loads the      *)
(* public key from the certificate content and verifies the ECDSA          *)
(* signature over the SHA-256 digest of the covered part.                  *)
(*                                                                         *)
(* asyncio runs one coroutine segment at a time, so every action below is  *)
(* one segment: the code between two awaits, together with whatever the    *)
(* awaiting callers do with the value or exception that comes back.        *)
(***************************************************************************)
EXTENDS Integers, Sequences, FiniteSets, TLC

(* ------------------------------ bounds --------------------------------- *)

\* most byte ranges in a covered part
MaxBlocks == 2
\* most bytes in one byte range
MaxBlkLen == 1

\* the byte alphabet (two values stand for the 256)
Bytes == {0, 1}
\* the key pairs that exist; key k's certificate lives under KeyName(k)
KeyIds == {1, 2}

(* --------------------------- optional values --------------------------- *)

\* Python's None and a present value, as sequences of length 0 and 1
None == <<>>
Some(v) == <<v>>
IsNone(o) == Len(o) = 0
Val(o) == o[1]

\* `not x` for an optional sized value: None and the empty sequence are falsy
Falsy(o) == IsNone(o) \/ Len(Val(o)) = 0

(* ------------------------------- names --------------------------------- *)

\* consumer.py:15  /example/testApp/randomData/<timestamp>
DataName == <<"example", "testApp", "randomData", "ts">>
\* a key-locator name /example/testApp/KEY/<k>
KeyName(k) == <<"example", "testApp", "KEY", ToString(k)>>

(* --------------------------- crypto primitives ------------------------- *)

\* SignatureType.SHA256_WITH_ECDSA and the other TLV signature types
SHA256_WITH_ECDSA == 3
SigTypes == {0, 1, SHA256_WITH_ECDSA}

\* SHA256.new(): the state of a fresh hash object
SHA256_new == 0

\* hash.update(blk): absorbs the bytes of blk in order.  The digest is kept
\* collision free (an injective numeral of the absorbed bytes).
RECURSIVE SHA256_update(_, _)
SHA256_update(h, blk) ==
    IF Len(blk) = 0 THEN h
    ELSE SHA256_update(h * (Cardinality(Bytes) + 1) + Head(blk) + 1, Tail(blk))

\* (mutant) only the first byte range is hashed
DigestBlocks_firstOnly(h, blks) ==
    IF Len(blks) = 0 THEN h ELSE SHA256_update(h, Head(blks))

\* (mutant) the byte ranges are hashed last to first
RECURSIVE DigestBlocks_reversed(_, _)
DigestBlocks_reversed(h, blks) ==
    IF Len(blks) = 0 THEN h
    ELSE DigestBlocks_reversed(SHA256_update(h, blks[Len(blks)]),
                               SubSeq(blks, 1, Len(blks) - 1))

\* for blk in covered_part: sha256_hash.update(blk)
RECURSIVE DigestBlocks(_, _)
DigestBlocks(h, blks) ==
    IF Len(blks) = 0 THEN h
    ELSE DigestBlocks(SHA256_update(h, Head(blks)), Tail(blks))

\* the bytes a covered part stands for
RECURSIVE Concat(_)
Concat(blks) == IF Len(blks) = 0 THEN <<>> ELSE Head(blks) \o Concat(Tail(blks))

\* the first byte of a DER SEQUENCE and of an encoded public key
DerSeqTag == 48
KeyTag == 4

\* the producer's side: a DER signature by key k over message m
Sign(k, m) == <<DerSeqTag, k, SHA256_update(SHA256_new, m)>>
\* the encoded public key of key pair k, as carried in a certificate's content
ExportKey(k) == <<KeyTag, k>>

\* ECC.import_key(key_bits): the key, or ValueError on anything else
ImportKeyOk(key_bits) ==
    Len(key_bits) = 2 /\ key_bits[1] = KeyTag /\ key_bits[2] \in KeyIds
ImportedKey(key_bits) == key_bits[2]

\* (mutant) the digest is not compared
DSS_verify_wrongDigest(pk, h, sig_bytes) ==
    Len(sig_bytes) = 3 /\ sig_bytes[1] = DerSeqTag /\ sig_bytes[2] = pk
\* verifier.verify(hash, signature) with 'der' encoding: passes only for a
\* well-formed DER signature made by the key's owner over this digest,
\* raises ValueError otherwise
DSS_verify(pk, h, sig_bytes) ==
    /\ Len(sig_bytes) = 3
    /\ sig_bytes[1] = DerSeqTag
    /\ sig_bytes[2] = pk
    /\ sig_bytes[3] = h

(* ------------------------------- inputs -------------------------------- *)

RECURSIVE SeqsUpTo(_, _)
SeqsUpTo(S, n) ==
    IF n = 0 THEN {<<>>}
    ELSE LET shorter == SeqsUpTo(S, n - 1)
         IN  shorter \cup {Append(s, x) : s \in {t \in shorter : Len(t) = n - 1}, x \in S}

Blocks == SeqsUpTo(Bytes, MaxBlkLen)
CoveredParts == SeqsUpTo(Blocks, MaxBlocks)

\* what tampering can turn the signed bytes m into
Altered(m) ==
    {[m EXCEPT ![i] = b] : i \in 1..Len(m), b \in Bytes} \cup
    {SubSeq(m, 1, Len(m) - 1)} \cup {Append(m, 0)}

SigInfos ==
    {None} \cup
    {Some([signature_type |-> t, key_locator |-> kl]) :
        t \in SigTypes, kl \in {None} \cup {Some(KeyName(k)) : k \in KeyIds}}

\* the signature values that may come with covered part cp: none, empty,
\* garbage, or a real signature over the covered bytes or over bytes that
\* differ from them
SigValuesFor(cp) ==
    LET m == IF IsNone(cp) THEN <<>> ELSE Concat(Val(cp))
    IN  {None, Some(<<>>), Some(<<7>>)} \cup
        {Some(Sign(k, x)) : k \in KeyIds, x \in {m} \cup Altered(m)}

\* the covered part of a received Data packet, which may be missing
CoveredOpts == {None} \cup {Some(c) : c \in CoveredParts}

\* SignaturePtrs of a received Data packet
SignaturePtrs(si, cp, sv) ==
    [signature_info |-> si, signature_covered_part |-> cp, signature_value_buf |-> sv]

\* what the nested Interest may bring back: the Data's content and its raw
\* packet (whether it parses as a certificate, whether the validity period
\* it states is over, and whether its own signature is its issuer's)
CertPackets ==
    {[content |-> c, raw_packet |-> r] :
        c \in {None, Some(<<>>), Some(<<9>>)} \cup {Some(ExportKey(k)) : k \in KeyIds},
        r \in {[decodable |-> FALSE, expired |-> FALSE, issuer_signed |-> FALSE]} \cup
              {[decodable |-> TRUE, expired |-> e, issuer_signed |-> i] :
                  e \in BOOLEAN, i \in BOOLEAN}}

\* the ways express_interest fails in the network
NetworkErrors == {"InterestNack", "InterestTimeout", "InterestCanceled"}

(* ------------------------------- state --------------------------------- *)

VARIABLES
    pc,          \* main: "start", "pending", "validating", "done"
    outcome,     \* main's branch: "none", "success", "nack", "timeout",
                 \*   "canceled", "validation_failure", "unhandled"
    propagated,  \* the exception that left main, or "none"
    sig,         \* the SignaturePtrs handed to the validator (optional)
    val,         \* validator: "idle", "awaiting", "returned", "raised"
    verdict,     \* what the validator returned: "none", "true", "false"
    raised,      \* the exception that left the validator, or "none"
    cert_int,    \* the nested certificate Interest
    cert,        \* the packet that answered it (optional)
    digest,      \* the validator's sha256_hash once computed (optional)
    n_fetch,     \* certificate Interests expressed
    n_validate,  \* validator invocations
    n_delivered, \* times main's success branch ran
    n_shutdown,  \* app.shutdown() calls
    inv          \* validator invocations running side by side: the frame of
                 \*   each (used when several Data packets are being validated)

\* main and the one validation it starts
main_vars == <<pc, outcome, propagated, sig, val, verdict, raised, cert_int, cert,
               digest, n_fetch, n_validate, n_delivered, n_shutdown>>
vars == <<main_vars, inv>>

\* the validator coroutines that may be outstanding together
Invocations == {1, 2}

\* a coroutine frame of verify_ecdsa_signature before its call: its
\* parameter sig, its certificate Interest and the packet that answered it,
\* and how it ended
IdleInvocation ==
    [state |-> "idle", sig |-> None, fetch |-> "none", cert |-> None,
     verdict |-> "none", raised |-> "none", overlapped |-> FALSE]

NoInterest ==
    [state |-> "none", name |-> <<>>, must_be_fresh |-> FALSE,
     can_be_prefix |-> FALSE, lifetime |-> 0]

Init ==
    /\ pc = "start"
    /\ outcome = "none"
    /\ propagated = "none"
    /\ sig = None
    /\ val = "idle"
    /\ verdict = "none"
    /\ raised = "none"
    /\ cert_int = NoInterest
    /\ cert = None
    /\ digest = None
    /\ n_fetch = 0
    /\ n_validate = 0
    /\ n_delivered = 0
    /\ n_shutdown = 0
    /\ inv = [i \in Invocations |-> IdleInvocation]

(* ------------------- verify_ecdsa_signature, in steps ------------------ *)

\* how a coroutine segment ends; hash is the local sha256_hash, if the
\* segment got as far as computing it
Ret(b) ==
    [kind |-> "return", value |-> b, exc |-> "none", name |-> <<>>, hash |-> None]
Raise(e) ==
    [kind |-> "raise", value |-> FALSE, exc |-> e, name |-> <<>>, hash |-> None]
Await(n) ==
    [kind |-> "await", value |-> FALSE, exc |-> "none", name |-> n, hash |-> None]

\* (mutant) the signature type is not looked at
TypeCheckFails_absentOnly(s) == IsNone(s.signature_info)
\* consumer.py:54
TypeCheckFails(s) ==
    \/ IsNone(s.signature_info)
    \/ Val(s.signature_info).signature_type # SHA256_WITH_ECDSA

\* (mutant) the signature value is not looked at
PresenceCheckFails_coveredOnly(s) == Falsy(s.signature_covered_part)
\* consumer.py:56
PresenceCheckFails(s) ==
    Falsy(s.signature_covered_part) \/ Falsy(s.signature_value_buf)

\* consumer.py:51-62: up to the await of the certificate Interest.
\* sig_info.key_locator.name raises AttributeError when the SignatureInfo
\* carries no KeyLocator.
verify_begin(s) ==
    IF TypeCheckFails(s) THEN Ret(FALSE)
    ELSE IF PresenceCheckFails(s) THEN Ret(FALSE)
    ELSE IF IsNone(Val(s.signature_info).key_locator) THEN Raise("AttributeError")
    ELSE Await(Val(Val(s.signature_info).key_locator))

\* (mutant) the name is sliced from its second component
CertInterest_slicedName(n) ==
    [state |-> "pending", name |-> Tail(n), must_be_fresh |-> TRUE,
     can_be_prefix |-> TRUE, lifetime |-> 6000]
\* consumer.py:58-62: the Interest the validator expresses for key_name n,
\* the whole key-locator name (name[0:])
CertInterest(n) ==
    [state |-> "pending", name |-> n, must_be_fresh |-> TRUE,
     can_be_prefix |-> TRUE, lifetime |-> 6000]

\* consumer.py:75-82
check_signature(pk, s) ==
    LET sha256_hash == DigestBlocks(SHA256_new, Val(s.signature_covered_part))
    IN  IF DSS_verify(pk, sha256_hash, Val(s.signature_value_buf))
        THEN [Ret(TRUE) EXCEPT !.hash = Some(sha256_hash)]
        ELSE [Ret(FALSE) EXCEPT !.hash = Some(sha256_hash)]    \* except ValueError

\* (mutant) a certificate that is expired or not signed by its issuer is
\* turned down
verify_resume_checksCertificate(s, c) ==
    IF ~c.raw_packet.decodable THEN Raise("DecodeError")
    ELSE IF c.raw_packet.expired \/ ~c.raw_packet.issuer_signed THEN Ret(FALSE)
    ELSE IF IsNone(c.content) THEN Raise("TypeError")
    ELSE IF ~ImportKeyOk(Val(c.content)) THEN Raise("ValueError")
    ELSE check_signature(ImportedKey(Val(c.content)), s)
\* consumer.py:63-82: from the certificate's arrival to the return.
\* parse_certificate raises on a packet that is no certificate; bytes(None)
\* raises TypeError, which the except clause (KeyError, AttributeError) does
\* not name; ECC.import_key raises ValueError outside any try.  The parsed
\* cert (line 65) is not looked at again.
verify_resume(s, c) ==
    IF ~c.raw_packet.decodable THEN Raise("DecodeError")
    ELSE LET key_bits == IF IsNone(c.content) THEN Raise("TypeError")
                         ELSE Ret(TRUE)
         IN  IF key_bits.kind = "raise"
             THEN IF key_bits.exc \in {"KeyError", "AttributeError"}
                  THEN Ret(FALSE)
                  ELSE key_bits
             ELSE IF ~ImportKeyOk(Val(c.content)) THEN Raise("ValueError")
             ELSE check_signature(ImportedKey(Val(c.content)), s)

(* ------------------------------- main ---------------------------------- *)

\* (mutant) the validator's verdict is ignored
AwaitValidator_acceptAll(r) ==
    IF r.kind = "raise" THEN r.exc ELSE "ok"
\* consumer.py:18-19: what `await app.express_interest(..., validator=v)`
\* gives main once v has finished with r: the Data when v returned True,
\* ValidationFailure when it returned False, v's own exception otherwise
AwaitValidator(r) ==
    IF r.kind = "raise" THEN r.exc
    ELSE IF r.value THEN "ok" ELSE "ValidationFailure"

\* consumer.py:13-33: the branch main takes for result x of the await
MainBranch(x) ==
    CASE x = "ok" -> "success"
      [] x = "InterestNack" -> "nack"
      [] x = "InterestTimeout" -> "timeout"
      [] x = "InterestCanceled" -> "canceled"
      [] x = "ValidationFailure" -> "validation_failure"
      [] OTHER -> "unhandled"

\* (mutant) app.shutdown() follows the try statement instead of sitting in
\* its finally clause
MainEnds_noFinally(x) ==
    /\ pc' = "done"
    /\ outcome' = MainBranch(x)
    /\ propagated' = IF MainBranch(x) = "unhandled" THEN x ELSE "none"
    /\ n_delivered' = IF x = "ok" THEN n_delivered + 1 ELSE n_delivered
    /\ n_shutdown' = IF MainBranch(x) = "unhandled" THEN n_shutdown
                      ELSE n_shutdown + 1
\* consumer.py:20-33: main from the end of its await to its own end; the
\* finally clause runs on every path
MainEnds(x) ==
    /\ pc' = "done"
    /\ outcome' = MainBranch(x)
    /\ propagated' = IF MainBranch(x) = "unhandled" THEN x ELSE "none"
    /\ n_delivered' = IF x = "ok" THEN n_delivered + 1 ELSE n_delivered
    /\ n_shutdown' = n_shutdown + 1

\* the validator's segment ended with r (a return or a raise)
ValidatorEnds(r) ==
    /\ val' = IF r.kind = "raise" THEN "raised" ELSE "returned"
    /\ verdict' = IF r.kind = "raise" THEN "none"
                  ELSE IF r.value THEN "true" ELSE "false"
    /\ raised' = IF r.kind = "raise" THEN r.exc ELSE "none"
    /\ digest' = r.hash
    /\ MainEnds(AwaitValidator(r))

(* ------------------------------ actions -------------------------------- *)

\* consumer.py:14-19: main expresses the Interest and suspends
SendInterest ==
    /\ pc = "start"
    /\ UNCHANGED inv
    /\ pc' = "pending"
    /\ UNCHANGED <<outcome, propagated, sig, val, verdict, raised, cert_int,
                   cert, digest, n_fetch, n_validate, n_delivered, n_shutdown>>

\* the Interest is nacked, times out or is canceled before any Data arrives
OuterFail(e) ==
    /\ pc = "pending"
    /\ UNCHANGED inv
    /\ MainEnds(e)
    /\ UNCHANGED <<sig, val, verdict, raised, cert_int, cert, digest, n_fetch,
                   n_validate>>

\* (mutant) the certificate Interest is expressed but not awaited
RecvData_noAwait(s) ==
    /\ pc = "pending"
    /\ UNCHANGED inv
    /\ sig' = Some(s)
    /\ n_validate' = n_validate + 1
    /\ cert' = cert
    /\ LET r == verify_begin(s)
       IN  IF r.kind = "await"
           THEN /\ cert_int' = CertInterest(r.name)
                /\ n_fetch' = n_fetch + 1
                /\ ValidatorEnds(Ret(TRUE))
           ELSE /\ ValidatorEnds(r)
                /\ UNCHANGED <<cert_int, n_fetch>>
\* Data arrives with SignaturePtrs s: the validator runs to its first return,
\* raise or await
RecvData(s) ==
    /\ pc = "pending"
    /\ UNCHANGED inv
    /\ sig' = Some(s)
    /\ n_validate' = n_validate + 1
    /\ cert' = cert
    /\ LET r == verify_begin(s)
       IN  IF r.kind = "await"
           THEN /\ pc' = "validating"
                /\ val' = "awaiting"
                /\ cert_int' = CertInterest(r.name)
                /\ n_fetch' = n_fetch + 1
                /\ UNCHANGED <<outcome, propagated, verdict, raised, digest,
                               n_delivered, n_shutdown>>
           ELSE /\ ValidatorEnds(r)
                /\ UNCHANGED <<cert_int, n_fetch>>

\* (mutant) a failed certificate Interest is expressed again
CertFail_retry(e) ==
    /\ pc = "validating"
    /\ UNCHANGED inv
    /\ cert_int.state = "pending"
    /\ n_fetch < 3
    /\ n_fetch' = n_fetch + 1
    /\ UNCHANGED <<pc, outcome, propagated, sig, val, verdict, raised, cert_int,
                   cert, digest, n_validate, n_delivered, n_shutdown>>
\* (mutant) the failure ends the outer request and leaves the certificate
\* Interest pending
CertFail_outerOnly(e) ==
    /\ pc = "validating"
    /\ UNCHANGED inv
    /\ cert_int.state = "pending"
    /\ cert_int' = cert_int
    /\ ValidatorEnds(Raise(e))
    /\ UNCHANGED <<sig, cert, n_fetch, n_validate>>
\* consumer.py:61: the certificate Interest fails (nacked, timed out, or
\* canceled when the app drops its pending Interests); nothing catches e in
\* the validator, so the same exception ends the outer request
CertFail(e) ==
    /\ pc = "validating"
    /\ UNCHANGED inv
    /\ cert_int.state = "pending"
    /\ cert_int' = [cert_int EXCEPT !.state = e]
    /\ ValidatorEnds(Raise(e))
    /\ UNCHANGED <<sig, cert, n_fetch, n_validate>>

\* consumer.py:61-82: the certificate Interest is answered with packet c and
\* the validator runs to its end
CertData(c) ==
    /\ pc = "validating"
    /\ UNCHANGED inv
    /\ cert_int.state = "pending"
    /\ cert_int' = [cert_int EXCEPT !.state = "data"]
    /\ cert' = Some(c)
    /\ ValidatorEnds(verify_resume(Val(sig), c))
    /\ UNCHANGED <<sig, n_fetch, n_validate>>

\* the event loop runs whichever segment is ready; the inputs are only
\* drawn where a segment can take them
Next ==
    \/ SendInterest
    \/ \E e \in NetworkErrors : OuterFail(e)
    \/ /\ pc = "pending"
       /\ \E si \in SigInfos, cp \in CoveredOpts :
             \E sv \in SigValuesFor(cp) : RecvData(SignaturePtrs(si, cp, sv))
    \/ \E e \in NetworkErrors : CertFail(e)
    \/ pc = "validating" /\ \E c \in CertPackets : CertData(c)

Spec == Init /\ [][Next]_vars

\* The event loop runs main once started, and every Interest carries
\* lifetime=6000: an Interest that stays pending meets its timeout
FairSpec ==
    /\ Spec
    /\ WF_vars(SendInterest)
    /\ WF_vars(OuterFail("InterestTimeout"))
    /\ WF_vars(CertFail("InterestTimeout"))

(* ------------- several validations outstanding side by side ------------ *)

\* The validator is a callback: the app calls it once per received Data, and
\* a call suspended at line 61 leaves the event loop free to start or resume
\* another.  Each call has its own frame (lines 51-53, 58, 61, 65-75 bind
\* locals only); the one module-level name the validator reads is app.

\* the signature metadata of the Data packets being validated together
ConcSigs ==
    {SignaturePtrs(Some([signature_type |-> ty, key_locator |-> Some(KeyName(k))]),
                   Some(cp), sv) :
        ty \in {0, SHA256_WITH_ECDSA}, k \in {1}, cp \in {<<<<0>>>>, <<<<0>>, <<1>>>>},
        sv \in {Some(Sign(1, <<0>>)), Some(Sign(2, <<0, 1>>)), Some(Sign(1, <<0, 1>>))}}

\* the certificate packets that answer their fetches
ConcCerts ==
    {c \in CertPackets : ~c.raw_packet.expired /\ c.content # Some(<<9>>)
                           /\ c.raw_packet.issuer_signed = c.raw_packet.decodable}

\* how frame f looks once its segment ended with r
EndedWith(f, r) ==
    [f EXCEPT !.state = IF r.kind = "raise" THEN "raised" ELSE "returned",
              !.verdict = IF r.kind = "raise" THEN "none"
                          ELSE IF r.value THEN "true" ELSE "false",
              !.raised = IF r.kind = "raise" THEN r.exc ELSE "none"]

\* consumer.py:50-62: invocation i is called with s and runs to its first
\* return, raise or await
ConcBegin(i, s) ==
    /\ inv[i].state = "idle"
    /\ LET r == verify_begin(s)
           f == [inv[i] EXCEPT !.sig = Some(s)]
       IN  inv' = [inv EXCEPT ![i] =
                      IF r.kind = "await"
                      THEN [f EXCEPT !.state = "awaiting", !.fetch = "pending"]
                      ELSE EndedWith(f, r)]
    /\ UNCHANGED main_vars

\* consumer.py:61: invocation i's certificate Interest fails
ConcCertFail(i, e) ==
    /\ inv[i].state = "awaiting"
    /\ inv' = [inv EXCEPT ![i] =
                  EndedWith([inv[i] EXCEPT !.fetch = e,
                                           !.overlapped = \E j \in Invocations \ {i} :
                                                             inv[j].state = "awaiting"],
                            Raise(e))]
    /\ UNCHANGED main_vars

\* (mutant) the signature metadata is kept in one module-level variable,
\* which a later call overwrites while this one is suspended
ConcCertData_sharedSig(i, c) ==
    /\ inv[i].state = "awaiting"
    /\ LET others == {j \in Invocations \ {i} : inv[j].state # "idle"}
           s == IF others = {} THEN Val(inv[i].sig)
                ELSE Val(inv[CHOOSE j \in others : TRUE].sig)
       IN  inv' = [inv EXCEPT ![i] =
                      EndedWith([inv[i] EXCEPT !.fetch = "data", !.cert = Some(c),
                                               !.overlapped = \E j \in Invocations \ {i} :
                                                                 inv[j].state = "awaiting"],
                                verify_resume(s, c))]
    /\ UNCHANGED main_vars
\* consumer.py:61-82: invocation i's certificate Interest is answered with
\* packet c and the invocation runs to its end on its own locals
ConcCertData(i, c) ==
    /\ inv[i].state = "awaiting"
    /\ inv' = [inv EXCEPT ![i] =
                  EndedWith([inv[i] EXCEPT !.fetch = "data", !.cert = Some(c),
                                           !.overlapped = \E j \in Invocations \ {i} :
                                                             inv[j].state = "awaiting"],
                            verify_resume(Val(inv[i].sig), c))]
    /\ UNCHANGED main_vars

ConcNext ==
    \E i \in Invocations :
        \/ \E s \in ConcSigs : ConcBegin(i, s)
        \/ \E e \in NetworkErrors : ConcCertFail(i, e)
        \/ \E c \in ConcCerts : ConcCertData(i, c)

ConcSpec == Init /\ [][ConcNext]_vars

(* ------------------------- claims: vocabulary -------------------------- *)

\* the validator ran to a return or a raise
Finished == val \in {"returned", "raised"}
HasSig == ~IsNone(sig)
TheSig == Val(sig)
HasInfo == HasSig /\ ~IsNone(TheSig.signature_info)
TheInfo == Val(TheSig.signature_info)
\* supported type, covered part and signature value present and non-empty
PassesChecks ==
    /\ HasInfo
    /\ TheInfo.signature_type = SHA256_WITH_ECDSA
    /\ TheSig.signature_covered_part # None
    /\ TheSig.signature_covered_part # Some(<<>>)
    /\ TheSig.signature_value_buf # None
    /\ TheSig.signature_value_buf # Some(<<>>)
HasLocator == HasInfo /\ TheInfo.key_locator # None
\* a certificate packet arrived, it parses, and its content is key k
CertHoldsKey(k) ==
    /\ cert # None
    /\ Val(cert).raw_packet.decodable
    /\ Val(cert).content = Some(ExportKey(k))
\* the signature value is key k's signature over exactly the covered bytes
SignedBy(k) ==
    TheSig.signature_value_buf = Some(Sign(k, Concat(Val(TheSig.signature_covered_part))))

(* ------------------------------- claims -------------------------------- *)

\* C1: for a supported signature type, a non-empty covered part and
\* signature value, a certificate fetch answered with a certificate whose
\* content is the signer's public key, and a signature made over exactly
\* the covered bytes, the validator returns True and main receives the Data.
C1_WellFormedAccepted ==
    \A k \in KeyIds :
        (PassesChecks /\ HasLocator /\ CertHoldsKey(k) /\ SignedBy(k))
            => (val = "returned" /\ verdict = "true" /\ outcome = "success")

C1_Witness ==
    /\ \E k \in KeyIds : PassesChecks /\ HasLocator /\ CertHoldsKey(k) /\ SignedBy(k)
    /\ Len(Val(TheSig.signature_covered_part)) = MaxBlocks
    /\ Concat(Val(TheSig.signature_covered_part)) # <<>>
    /\ verdict = "true"
    /\ outcome = "success"

\* C2: when the signature info is absent or its type is not
\* SHA256_WITH_ECDSA the validator returns False and expresses no
\* certificate Interest.
C2_UnsupportedTypeRejectedWithoutFetch ==
    (HasSig /\ (~HasInfo \/ TheInfo.signature_type # SHA256_WITH_ECDSA))
        => /\ val = "returned"
           /\ verdict = "false"
           /\ n_fetch = 0
           /\ cert_int.state = "none"

C2_Witness ==
    /\ HasInfo
    /\ TheInfo.signature_type # SHA256_WITH_ECDSA
    /\ HasLocator
    /\ TheSig.signature_value_buf \notin {None, Some(<<>>), Some(<<7>>)}
    /\ verdict = "false"
    /\ n_fetch = 0

\* C3 (as claimed): when the certificate Interest fails, the validator
\* returns False and main ends in the ValidationFailure branch.
C3_FetchFailureIsValidationFailure ==
    cert_int.state \in NetworkErrors
        => (verdict = "false" /\ outcome = "validation_failure")

\* C4 (as claimed): when the fetched packet does not parse as a certificate,
\* or its content is absent or is no public key, the validator returns False
\* and raises nothing.
C4_MalformedCertificateRejected ==
    (cert # None /\ (\/ ~Val(cert).raw_packet.decodable
                     \/ Val(cert).content \notin {Some(ExportKey(k)) : k \in KeyIds}))
        => (val = "returned" /\ verdict = "false" /\ raised = "none")

\* C5: once a public key has been loaded from the certificate, a signature
\* value that is not that key's signature over exactly the covered bytes
\* (altered bytes, another key, a malformed value) makes the validator
\* return False; it raises nothing.
C5_MismatchReturnsFalse ==
    \A k \in KeyIds :
        (CertHoldsKey(k) /\ ~SignedBy(k))
            => (val = "returned" /\ verdict = "false" /\ raised = "none")

C5_Witness ==
    \E k \in KeyIds :
        /\ CertHoldsKey(k)
        /\ ~SignedBy(k)
        /\ \E m \in Altered(Concat(Val(TheSig.signature_covered_part))) :
              TheSig.signature_value_buf = Some(Sign(k, m))
        /\ verdict = "false"

\* C6: main's success branch runs only when the validator returned True, and
\* at most once; when the validator returned False main ends in the
\* ValidationFailure branch and the success branch never ran.
C6_DeliveredOnlyIfValid ==
    /\ n_delivered <= 1
    /\ (n_delivered > 0 \/ outcome = "success") => verdict = "true"
    /\ verdict = "false" => (outcome = "validation_failure" /\ n_delivered = 0)

C6_Witness ==
    /\ cert # None
    /\ verdict = "false"
    /\ outcome = "validation_failure"
    /\ n_delivered = 0

\* C7: when the covered part or the signature value is missing or empty the
\* validator returns False before the key locator is read and before any
\* certificate Interest is expressed.
C7_MissingPartsRejectedBeforeFetch ==
    (HasSig /\ (\/ TheSig.signature_covered_part \in {None, Some(<<>>)}
                \/ TheSig.signature_value_buf \in {None, Some(<<>>)}))
        => /\ val = "returned"
           /\ verdict = "false"
           /\ raised = "none"
           /\ n_fetch = 0
           /\ cert_int.state = "none"

C7_Witness ==
    /\ HasInfo
    /\ TheInfo.signature_type = SHA256_WITH_ECDSA
    /\ TheSig.signature_covered_part \notin {None, Some(<<>>)}
    /\ TheSig.signature_value_buf = Some(<<>>)
    /\ verdict = "false"
    /\ n_fetch = 0

\* C8 (as claimed): every invocation that passes the signature-type and
\* presence checks expresses exactly one certificate Interest, and none
\* expresses more than one.
C8_ExactlyOneFetchAfterChecks ==
    /\ n_fetch <= 1
    /\ (Finished /\ PassesChecks) => n_fetch = 1

\* C8 (amended): every invocation that passes the signature-type and
\* presence checks and whose signature info carries a key locator expresses
\* exactly one certificate Interest; no invocation expresses more than one,
\* and the certificate's arrival starts no further validator invocation.
C8_ExactlyOneFetchWithLocator ==
    /\ n_fetch <= 1
    /\ n_validate <= 1
    /\ (HasSig /\ PassesChecks /\ HasLocator) => n_fetch = 1
    /\ (HasSig /\ ~(PassesChecks /\ HasLocator)) => n_fetch = 0
    /\ cert_int.state # "none" => (n_fetch = 1 /\ n_validate = 1)

C8_Witness ==
    /\ PassesChecks
    /\ HasLocator
    /\ cert_int.state \in NetworkErrors
    /\ Finished
    /\ n_fetch = 1
    /\ n_validate = 1

\* C9 (as claimed): main ends in exactly one of success, nack, timeout,
\* canceled or validation failure, and no other exception leaves main.
C9_EveryFailureIsTyped ==
    pc = "done"
        => /\ outcome \in {"success", "nack", "timeout", "canceled", "validation_failure"}
           /\ propagated = "none"

\* C10: while the certificate Interest is pending main has reached no
\* outcome: neither the success branch nor ValidationFailure comes before
\* the certificate Interest's own end.
C10_OuterWaitsForCertificate ==
    cert_int.state = "pending"
        => /\ pc = "validating"
           /\ val = "awaiting"
           /\ outcome = "none"
           /\ verdict = "none"
           /\ n_delivered = 0

C10_Witness ==
    /\ cert_int.state = "pending"
    /\ cert_int.name = KeyName(2)
    /\ val = "awaiting"
    /\ outcome = "none"


\* C11: the name of the certificate Interest is the key-locator name of the
\* received Data's signature info (not the Data name, not a name of the
\* validator's choosing), and the Interest asks for fresh content and
\* allows prefix matching.
C11_CertNameIsKeyLocator ==
    cert_int.state # "none"
        => /\ HasLocator
           /\ cert_int.name = Val(TheInfo.key_locator)
           /\ cert_int.name # DataName
           /\ cert_int.must_be_fresh
           /\ cert_int.can_be_prefix

C11_Witness ==
    /\ cert_int.state = "data"
    /\ HasLocator
    /\ cert_int.name = KeyName(1)
    /\ Val(cert).content = Some(ExportKey(2))
    /\ cert_int.must_be_fresh
    /\ cert_int.can_be_prefix


\* the covered part the validator was given, and the same ranges with the
\* i-th and j-th exchanged
TheCovered == Val(TheSig.signature_covered_part)
Swapped(cp, i, j) == [cp EXCEPT ![i] = cp[j], ![j] = cp[i]]
\* the bytes m cut into one range and into two ranges at every position
Resplit(m) ==
    {<<m>>} \cup {<<SubSeq(m, 1, i), SubSeq(m, i + 1, Len(m))>> : i \in 0..Len(m)}
\* the digest is that of the concatenated bytes, however they are cut
DigestOfConcatenation ==
    /\ Val(digest) = SHA256_update(SHA256_new, Concat(TheCovered))
    /\ \A c2 \in Resplit(Concat(TheCovered)) :
          DigestBlocks(SHA256_new, c2) = Val(digest)

\* C12 (as claimed): the digest is that of the covered ranges concatenated
\* in the order given, whatever the cut into ranges, and exchanging two
\* ranges with different contents changes it.
C12_DigestChangesOnAnyReorder ==
    digest # None
        => /\ DigestOfConcatenation
           /\ \A i, j \in 1..Len(TheCovered) :
                 TheCovered[i] # TheCovered[j]
                     => DigestBlocks(SHA256_new, Swapped(TheCovered, i, j)) # Val(digest)

\* C12 (amended): the digest is that of the covered ranges concatenated in
\* the order given, whatever the cut into ranges, and exchanging two ranges
\* changes it exactly when that changes the concatenated bytes.
C12_DigestOfConcatenatedBytes ==
    digest # None
        => /\ DigestOfConcatenation
           /\ \A i, j \in 1..Len(TheCovered) :
                 (Concat(Swapped(TheCovered, i, j)) # Concat(TheCovered))
                     <=> (DigestBlocks(SHA256_new, Swapped(TheCovered, i, j)) # Val(digest))

C12_Witness ==
    /\ digest # None
    /\ Len(TheCovered) = MaxBlocks
    /\ Concat(Swapped(TheCovered, 1, MaxBlocks)) # Concat(TheCovered)
    /\ Val(digest) = SHA256_update(SHA256_new, Concat(TheCovered))
    /\ verdict = "true"


\* C13: once the outer request has ended canceled, and once app.shutdown()
\* has been called, no certificate Interest of the validation is pending:
\* a cancellation during the nested fetch ends the nested Interest and
\* reaches main through it.
C13_CancelLeavesNoPendingFetch ==
    (outcome = "canceled" \/ n_shutdown > 0) => cert_int.state # "pending"

C13_Witness ==
    /\ outcome = "canceled"
    /\ n_fetch = 1
    /\ cert_int.state = "InterestCanceled"
    /\ raised = "InterestCanceled"
    /\ n_shutdown = 1


\* C15: on every path through main (success, nack, timeout, canceled,
\* validation failure, or an exception the validator let through)
\* app.shutdown() is eventually called, never more than once, and not
\* before the top-level request has reached its outcome.
C15_ShutdownOnceAfterOutcome ==
    /\ [](n_shutdown <= 1)
    /\ [](n_shutdown = 1 => (pc = "done" /\ outcome # "none"))
    /\ [](pc = "done" => n_shutdown = 1)
    /\ <>(n_shutdown = 1)

C15_Witness ==
    /\ pc = "done"
    /\ outcome = "unhandled"
    /\ propagated = "ValueError"
    /\ n_shutdown = 1


\* the verdict a finished validator segment r stands for
VerdictOf(r) ==
    IF r.kind = "raise" THEN "none" ELSE IF r.value THEN "true" ELSE "false"

\* C16: the verdict does not depend on the certificate's validity period or
\* on the certificate's own signature: a certificate with the same content
\* that differs only in those fields gives the same verdict, and an expired
\* certificate, or one its issuer did not sign, that holds the matching key
\* still gives True.
C16_VerdictIgnoresCertificateValidity ==
    (cert # None /\ Val(cert).raw_packet.decodable)
        => /\ \A c2 \in CertPackets :
                 (c2.raw_packet.decodable /\ c2.content = Val(cert).content)
                     => /\ VerdictOf(verify_resume(TheSig, c2)) = verdict
                        /\ verify_resume(TheSig, c2).exc = raised
           /\ \A k \in KeyIds : (CertHoldsKey(k) /\ SignedBy(k)) => verdict = "true"

C16_Witness ==
    /\ cert # None
    /\ Val(cert).raw_packet.decodable
    /\ Val(cert).raw_packet.expired
    /\ ~Val(cert).raw_packet.issuer_signed
    /\ \E k \in KeyIds : CertHoldsKey(k) /\ SignedBy(k)
    /\ verdict = "true"
    /\ outcome = "success"


\* how a validator called alone with s ends, its certificate Interest
\* having ended as fetch and been answered (if it was) by packet c
AloneOutcome(s, fetch, c) ==
    LET info == Val(s.signature_info)
        out(v, e) == [verdict |-> v, raised |-> e]
    IN  IF info.signature_type # SHA256_WITH_ECDSA THEN out("false", "none")
        ELSE IF fetch \in NetworkErrors THEN out("none", fetch)
        ELSE IF ~Val(c).raw_packet.decodable THEN out("none", "DecodeError")
        ELSE IF Val(c).content = None THEN out("none", "TypeError")
        ELSE IF Val(c).content \notin {Some(ExportKey(k)) : k \in KeyIds}
             THEN out("none", "ValueError")
        ELSE IF \E k \in KeyIds :
                    /\ Val(c).content = Some(ExportKey(k))
                    /\ s.signature_value_buf =
                           Some(Sign(k, Concat(Val(s.signature_covered_part))))
             THEN out("true", "none")
        ELSE out("false", "none")

\* C14: with several validations outstanding and their certificate fetches
\* ending in any order, each invocation ends as it would when run alone on
\* its own signature metadata and the answer to its own fetch.
C14_InvocationsDoNotInterfere ==
    \A i \in Invocations :
        inv[i].state \in {"returned", "raised"}
            => [verdict |-> inv[i].verdict, raised |-> inv[i].raised]
                   = AloneOutcome(Val(inv[i].sig), inv[i].fetch, inv[i].cert)

C14_Witness ==
    /\ inv[1].overlapped
    /\ inv[1].fetch = "data"
    /\ inv[2].fetch = "data"
    /\ inv[1].verdict = "true"
    /\ inv[2].verdict = "false"
    /\ inv[1].sig # inv[2].sig
    /\ inv[1].cert # inv[2].cert


=============================================================================
